---------------------------- MODULE Spec2Model ----------------------------
(***************************************************************************)
(* Model of gh-action-hal-updater: run() fetches the publications of an    *)
(* author from HAL, reads the local publications, matches every HAL        *)
(* publication (target) against the local ones (candidates) with           *)
(* findCorrespondingPublication, writes the step summary and hands the     *)
(* missing targets to createPullRequests.  An action is what run does      *)
(* between two of the points where it waits (for the answer of HAL, for    *)
(* its body, for the summary to be cleared, then written) or, inside       *)
(* findCorrespondingPublication, one turn of the loop over the candidates. *)
(*                                                                         *)
(* Three specifications: Spec is run, from the call to its end; SpecFind   *)
(* is findCorrespondingPublication called on any target, also one with the *)
(* field authors_t, which HAL is not asked for; SpecStrings is             *)
(* stringSimilarity called on any two strings.                             *)
(*                                                                         *)
(* JavaScript values are records [type, v]:                                *)
(*   undefined : v = <<>>                                                  *)
(*   string    : v = the sequence of its characters (one-character strings)*)
(*   array     : v = the sequence of its elements (character sequences)    *)
(*   Date      : v = <<d>> with d the time value in days since the epoch,  *)
(*               or <<>> for an Invalid Date (time value NaN)              *)
(* JavaScript numbers are IEEE-754 doubles: a sign, a significand of 53    *)
(* bits and an exponent, with round-to-nearest, ties-to-even arithmetic.   *)
(* The values of the program stay far from the ends of the exponent range, *)
(* so subnormal numbers and overflow are not modelled, nor is -0.          *)
(***************************************************************************)
EXTENDS Integers, Sequences, FiniteSets, TLC

VARIABLES
    halResponse,         \* part_000:45    what HAL answers to the request
    localFolder,         \* local_publications.js:27  what the local folder holds
    halPublications,     \* main.ts:16  the targets, in the order HAL returned them
    localPublications,   \* main.ts:22  the candidates, in folder order
    confidenceThreshold, \* main.ts:26  Number.parseFloat of the input (may be NaN)
    pc,                  \* position of run()
    k,                   \* main.ts:29  index of the target of the for loop
    ci,                  \* local_publications.js:85  index of the candidate of the for loop
    best_candidate,      \* local_publications.js:83  index of the candidate, 0 for null
    best_confidence,     \* local_publications.js:84
    confidence,          \* local_publications.js:107 fused confidence of the last scored candidate
    ret,                 \* the value returned by findCorrespondingPublication
    results,             \* main.ts:28
    summaryBuffer,       \* main.ts:72-88  what core.summary holds since its last clear
    summaryWritten,      \* main.ts:89  core.summary.write() has completed
    files,               \* the files written by createFiles
    outputs,             \* main.ts:50-51  the outputs set with core.setOutput
    failed,              \* main.ts:55  core.setFailed was called
    message,             \* main.ts:55  the message given to core.setFailed
    sim_str1,            \* local_publications.js:254  str1 of a call of stringSimilarity
    sim_str2,            \* local_publications.js:254  str2 of that call
    sim_result           \* local_publications.js:257  the value that call returned

\* What run() reads from outside.
inputVars == <<halResponse, localFolder, confidenceThreshold>>

\* The variables of a call of stringSimilarity on its own.
simVars == <<sim_str1, sim_str2, sim_result>>

vars == <<inputVars, halPublications, localPublications, pc, k, ci,
          best_candidate, best_confidence, confidence, ret, results,
          summaryBuffer, summaryWritten, files, outputs, failed, message, simVars>>

---------------------------------------------------------------------------
(* JavaScript values *)

Undefined == [type |-> "undefined", v |-> <<>>]
Str(s) == [type |-> "string", v |-> s]
Arr(a) == [type |-> "array", v |-> a]
DateAt(d) == [type |-> "Date", v |-> <<d>>]
InvalidDate == [type |-> "Date", v |-> <<>>]

\* ToBoolean: undefined and the empty string are falsy, objects are truthy.
Truthy(x) ==
    CASE x.type = "undefined" -> FALSE
      [] x.type = "string" -> x.v # <<>>
      [] OTHER -> TRUE

\* x === y on the values of the model (strings and undefined).
StrictEquals(x, y) == x.type = y.type /\ x.v = y.v

---------------------------------------------------------------------------
(* Naturals below 2^61, as hi * 2^30 + lo: the significands of doubles and *)
(* the intermediate results of the arithmetic on them.                     *)

Wide(hi, lo) == [hi |-> hi, lo |-> lo]

\* The number of bits of n, 0 <= n < 2^31.
RECURSIVE BitLength(_)
BitLength(n) == IF n = 0 THEN 0 ELSE 1 + BitLength(n \div 2)

WideBitLength(w) == IF w.hi > 0 THEN 30 + BitLength(w.hi) ELSE BitLength(w.lo)

WideAdd(a, b) ==
    LET lo == a.lo + b.lo
    IN  Wide(a.hi + b.hi + (lo \div 2^30), lo % 2^30)

\* a - b, for a >= b.
WideSub(a, b) ==
    IF a.lo >= b.lo THEN Wide(a.hi - b.hi, a.lo - b.lo)
    ELSE Wide(a.hi - b.hi - 1, a.lo + 2^30 - b.lo)

WideLess(a, b) == a.hi < b.hi \/ (a.hi = b.hi /\ a.lo < b.lo)

\* w * 2^s, for a product below 2^61.
WideShiftLeft(w, s) ==
    IF s < 30
    THEN Wide(w.hi * 2^s + (w.lo \div 2^(30 - s)), (w.lo % 2^(30 - s)) * 2^s)
    ELSE Wide(w.lo * 2^(s - 30), 0)

\* floor(w / 2^s)
WideShiftRight(w, s) ==
    IF s < 30 THEN Wide(w.hi \div 2^s, (w.lo \div 2^s) + (w.hi % 2^s) * 2^(30 - s))
    ELSE IF s < 61 THEN Wide(0, w.hi \div 2^(s - 30))
    ELSE Wide(0, 0)

\* w with its lowest bit set when the exact value has a rest below that bit.
Jam(w, inexact) == IF inexact /\ (w.lo % 2) = 0 THEN Wide(w.hi, w.lo + 1) ELSE w

WideShiftRightJam(w, s) ==
    LET q == WideShiftRight(w, s)
        back == IF s < 61 THEN WideShiftLeft(q, s) ELSE Wide(0, 0)
    IN  Jam(q, back # w)

\* The quotient and the remainder of w by n, 0 < n < 2^16.
WideDivide(w, n) ==
    LET q2 == w.hi \div n
        r2 == w.hi % n
        t1 == r2 * 2^15 + (w.lo \div 2^15)
        q1 == t1 \div n
        r1 == t1 % n
        t0 == r1 * 2^15 + (w.lo % 2^15)
    IN  [q |-> Wide(q2, q1 * 2^15 + (t0 \div n)), r |-> t0 % n]

---------------------------------------------------------------------------
(* JavaScript numbers: (-1)^neg * m * 2^e with 2^52 <= m < 2^53, or m = 0  *)

NaN == [k |-> "nan", neg |-> FALSE, m |-> Wide(0, 0), e |-> 0]
Infinity == [k |-> "inf", neg |-> FALSE, m |-> Wide(0, 0), e |-> 0]
Zero == [k |-> "num", neg |-> FALSE, m |-> Wide(0, 0), e |-> 0]

\* The double (-1)^neg * (hi * 2^30 + lo) * 2^e, written out.
Double(neg, hi, lo, e) == [k |-> "num", neg |-> neg, m |-> Wide(hi, lo), e |-> e]

isNaN(x) == x.k = "nan"
IsZero(x) == x.k = "num" /\ x.m = Wide(0, 0)
Negate(x) == IF x.k = "nan" \/ IsZero(x) THEN x ELSE [x EXCEPT !.neg = ~x.neg]

\* The double nearest to (-1)^neg * w * 2^e, ties to even; the lowest bit of
\* w may stand for any non-zero rest below it when w has 55 bits or more.
Round(neg, w, e) ==
    IF w = Wide(0, 0) THEN Zero
    ELSE LET bl == WideBitLength(w)
         IN  IF bl <= 53
             THEN [k |-> "num", neg |-> neg, m |-> WideShiftLeft(w, 53 - bl),
                   e |-> e - (53 - bl)]
             ELSE LET s == bl - 53
                      kept == WideShiftRight(w, s)
                      rest == w.lo % 2^s
                      half == 2^(s - 1)
                      up == rest > half \/ (rest = half /\ (kept.lo % 2) = 1)
                      m == IF up THEN WideAdd(kept, Wide(0, 1)) ELSE kept
                  IN  IF m = Wide(2^23, 0)
                      THEN Double(neg, 2^22, 0, e + s + 1)
                      ELSE Double(neg, m.hi, m.lo, e + s)

\* The double of an integer n, |n| < 2^31.
FromInt(n) ==
    LET a == IF n < 0 THEN -n ELSE n
    IN  Round(n < 0, Wide(a \div 2^30, a % 2^30), 0)

One == FromInt(1)

\* |x| < |y| for finite x and y.
MagnitudeLess(x, y) ==
    IF IsZero(y) THEN FALSE
    ELSE IF IsZero(x) THEN TRUE
    ELSE x.e < y.e \/ (x.e = y.e /\ WideLess(x.m, y.m))

\* x + y for finite non-zero x and y with |x| >= |y|: three more bits are
\* kept below the significands, the last one for all that is shifted out.
PlusOrdered(x, y) ==
    LET X == WideShiftLeft(x.m, 3)
        Y == WideShiftRightJam(WideShiftLeft(y.m, 3), x.e - y.e)
    IN  IF x.neg = y.neg THEN Round(x.neg, WideAdd(X, Y), x.e - 3)
        ELSE Round(x.neg, WideSub(X, Y), x.e - 3)

\* x + y
Plus(x, y) ==
    IF isNaN(x) \/ isNaN(y) THEN NaN
    ELSE IF x.k = "inf" THEN (IF y.k = "inf" /\ y.neg # x.neg THEN NaN ELSE x)
    ELSE IF y.k = "inf" THEN y
    ELSE IF IsZero(y) THEN x
    ELSE IF IsZero(x) THEN y
    ELSE IF MagnitudeLess(x, y) THEN PlusOrdered(y, x) ELSE PlusOrdered(x, y)

\* x - y
Minus(x, y) == Plus(x, Negate(y))

\* x / n for an integer n, 0 <= n < 2^15 (a length).
DivideBy(x, n) ==
    IF isNaN(x) THEN NaN
    ELSE IF n = 0 THEN (IF IsZero(x) THEN NaN ELSE [Infinity EXCEPT !.neg = x.neg])
    ELSE IF x.k = "inf" \/ IsZero(x) THEN x
    ELSE LET b == BitLength(n)
             t == IF b > 5 THEN b - 5 ELSE 0
             first == WideDivide(WideShiftLeft(x.m, 8), n)
             rest == first.r * 2^t
             q == WideAdd(WideShiftLeft(first.q, t), Wide(0, rest \div n))
         IN  Round(x.neg, Jam(q, (rest % n) # 0), x.e - 8 - t)

\* The double n / d of two integers, as the division of the code gives it.
Num(n, d) == DivideBy(FromInt(n), d)

\* x < y: false when either side is NaN.
LessThan(x, y) ==
    /\ ~isNaN(x) /\ ~isNaN(y)
    /\ IF x.k = "inf" THEN x.neg /\ ~(y.k = "inf" /\ y.neg)
       ELSE IF y.k = "inf" THEN ~y.neg
       ELSE IF IsZero(x) THEN ~IsZero(y) /\ ~y.neg
       ELSE IF IsZero(y) THEN x.neg
       ELSE IF x.neg # y.neg THEN x.neg
       ELSE IF x.neg THEN MagnitudeLess(y, x) ELSE MagnitudeLess(x, y)

\* x > y and x >= y: false when either side is NaN.
GreaterThan(x, y) == LessThan(y, x)
GreaterOrEqual(x, y) == ~isNaN(x) /\ ~isNaN(y) /\ ~LessThan(x, y)

\* Math.max(a, b): NaN when either is NaN.
MathMax(a, b) ==
    IF isNaN(a) \/ isNaN(b) THEN NaN
    ELSE IF GreaterThan(b, a) THEN b ELSE a

---------------------------------------------------------------------------
(* Strings *)

Digits == {"0", "1", "2", "3", "4", "5", "6", "7", "8", "9"}

DigitValue(c) ==
    CASE c = "0" -> 0 [] c = "1" -> 1 [] c = "2" -> 2 [] c = "3" -> 3
      [] c = "4" -> 4 [] c = "5" -> 5 [] c = "6" -> 6 [] c = "7" -> 7
      [] c = "8" -> 8 [] c = "9" -> 9

\* The number of digits at the end of s.
RECURSIVE TrailingDigits(_)
TrailingDigits(s) ==
    IF s # <<>> /\ s[Len(s)] \in Digits
    THEN 1 + TrailingDigits(SubSeq(s, 1, Len(s) - 1))
    ELSE 0

\* s.replace(/v\d+$/, ''): the match is a 'v' followed by all the digits
\* that end the string.
ReplaceVersion(s) ==
    LET t == TrailingDigits(s)
    IN  IF t >= 1 /\ Len(s) > t /\ s[Len(s) - t] = "v"
        THEN SubSeq(s, 1, Len(s) - t - 1)
        ELSE s

\* array.join(', ')
RECURSIVE Join(_)
Join(a) ==
    IF a = <<>> THEN <<>>
    ELSE IF Len(a) = 1 THEN a[1]
    ELSE a[1] \o <<",", " ">> \o Join(Tail(a))

Min2(a, b) == IF a < b THEN a ELSE b
Max2(a, b) == IF a > b THEN a ELSE b

\* One row of the edit-distance table: the distances of a[1..i] to every
\* prefix of b, from the row of a[1..i-1].
RECURSIVE LevRow(_, _, _, _)
LevRow(prev, ch, b, row) ==
    LET j == Len(row)
    IN  IF j > Len(b) THEN row
        ELSE LET subst == prev[j] + (IF ch = b[j] THEN 0 ELSE 1)
                 v == Min2(Min2(prev[j + 1] + 1, row[j] + 1), subst)
             IN  LevRow(prev, ch, b, Append(row, v))

RECURSIVE LevFrom(_, _, _, _)
LevFrom(a, b, i, prev) ==
    IF i > Len(a) THEN prev[Len(b) + 1]
    ELSE LevFrom(a, b, i + 1, LevRow(prev, a[i], b, <<prev[1] + 1>>))

\* js-levenshtein: the number of insertions, deletions and substitutions
\* of one character that turn a into b.
levenshtein(a, b) == LevFrom(a, b, 1, [j \in 1..(Len(b) + 1) |-> j - 1])

\* As stringSimilarity, the distance divided by the length of str1.
stringSimilarity_FirstLength(str1, str2) ==
    LET distance == levenshtein(str1, str2)
        maxLength == Len(str1)
    IN  Minus(One, DivideBy(FromInt(distance), maxLength))

\* 1.0 - (distance / maxLength), on two strings: the quotient is rounded,
\* then the difference.
stringSimilarity(str1, str2) ==
    LET distance == levenshtein(str1, str2)
        maxLength == Max2(Len(str1), Len(str2))
    IN  Minus(One, DivideBy(FromInt(distance), maxLength))

---------------------------------------------------------------------------
(* Dates *)

\* The day number of the civil date y-m-d, counted from 1970-01-01.  It grows
\* by one with d, so that a day past the end of the month is a day of the
\* next month.
DaysFromCivil(y, m, d) ==
    LET yy == IF m <= 2 THEN y - 1 ELSE y
        era == yy \div 400
        yoe == yy - era * 400
        mp == IF m > 2 THEN m - 3 ELSE m + 9
        doy == (153 * mp + 2) \div 5 + d - 1
        doe == yoe * 365 + yoe \div 4 - yoe \div 100 + doy
    IN  era * 146097 + doe - 719468

\* The characters of s at the places of P are digits.
DigitsAt(s, P) == \A i \in P : s[i] \in Digits

\* The number written by the two digits of s from place i.
TwoDigits(s, i) == 10 * DigitValue(s[i]) + DigitValue(s[i + 1])

\* The number written by the four digits that start s.
FourDigits(s) == 100 * TwoDigits(s, 1) + TwoDigits(s, 3)

\* s is written YYYY, YYYY-MM or YYYY-MM-DD.
IsYear(s) == Len(s) = 4 /\ DigitsAt(s, 1..4)
IsYearMonth(s) == Len(s) = 7 /\ DigitsAt(s, {1, 2, 3, 4, 6, 7}) /\ s[5] = "-"
IsYearMonthDay(s) ==
    Len(s) = 10 /\ DigitsAt(s, {1, 2, 3, 4, 6, 7, 9, 10}) /\ s[5] = "-" /\ s[8] = "-"

\* new Date(s) for a string s.  The date-only forms of the ECMAScript format
\* (YYYY, YYYY-MM, YYYY-MM-DD) are midnight UTC of the first day they name;
\* the month is 01..12 and the day 01..31, whatever the month.  A string
\* that holds no digit is an Invalid Date.  The other strings (a time of
\* day, another separator, a month name) are read by the fallback parser of
\* the engine, in the local time zone: they are outside this operator.
NewDate(s) ==
    CASE ~(\E i \in 1..Len(s) : s[i] \in Digits) -> InvalidDate
      [] IsYear(s) -> DateAt(DaysFromCivil(FourDigits(s), 1, 1))
      [] IsYearMonth(s) ->
            IF TwoDigits(s, 6) \in 1..12
            THEN DateAt(DaysFromCivil(FourDigits(s), TwoDigits(s, 6), 1))
            ELSE InvalidDate
      [] IsYearMonthDay(s) ->
            IF TwoDigits(s, 6) \in 1..12 /\ TwoDigits(s, 9) \in 1..31
            THEN DateAt(DaysFromCivil(FourDigits(s), TwoDigits(s, 6), TwoDigits(s, 9)))
            ELSE InvalidDate

\* Math.exp(-differenceInDays / 150) for the differences between the dates
\* of the model: 1, 0.9672161004820059, 0.9108898197456121,
\* 0.8810272994231082 and 0.26359713811572677.
ExpDecay(differenceInDays) ==
    CASE differenceInDays = 0 -> One
      [] differenceInDays = 5 -> Double(FALSE, 8113596, 771195908, -53)
      [] differenceInDays = 14 -> Double(FALSE, 7641097, 675422906, -53)
      [] differenceInDays = 19 -> Double(FALSE, 7390592, 700250481, -53)
      [] differenceInDays = 200 -> Double(FALSE, 4422426, 132230641, -54)

---------------------------------------------------------------------------
(* The exact-match gate *)

\* The value of `x && x.replace(/v\d+$/, '')` as the code leaves it in the
\* variable: a falsy x is kept as it is.
WithoutVersion(x) == IF Truthy(x) THEN Str(ReplaceVersion(x.v)) ELSE x

\* As haveSameHalID, the versions kept.
haveSameHalID_KeepVersion(target, candidate) ==
    Truthy(target.halId_s) /\ StrictEquals(target.halId_s, candidate.hal)

haveSameHalID(target, candidate) ==
    LET targetHal == WithoutVersion(target.halId_s)
        candidateHal == WithoutVersion(candidate.hal)
    IN  Truthy(targetHal) /\ StrictEquals(targetHal, candidateHal)

haveSameDOI(target, candidate) ==
    LET targetDOI == target.doiId_s
        candidateDOI == candidate.doi
    IN  targetDOI.type # "undefined" /\ StrictEquals(targetDOI, candidateDOI)

---------------------------------------------------------------------------
(* The similarity measures *)

\* halTitle.map(t => stringSimilarity(t, candidateTitle)).reduce(Math.max, 0)
RECURSIVE MaxSimilarity(_, _, _)
MaxSimilarity(titles, candidateTitle, acc) ==
    IF titles = <<>> THEN acc
    ELSE MaxSimilarity(Tail(titles), candidateTitle,
                       MathMax(acc, stringSimilarity(Head(titles), candidateTitle)))

\* As computeTitleSimilarity, the last variant standing for all of them.
computeTitleSimilarity_LastVariant(target, candidate) ==
    LET halTitle == target.title_s
        candidateTitle == candidate.title
    IN  IF ~(Truthy(halTitle) /\ Truthy(candidateTitle)) THEN NaN
        ELSE IF halTitle.type = "array"
             THEN IF halTitle.v = <<>> THEN Zero
                  ELSE stringSimilarity(halTitle.v[Len(halTitle.v)], candidateTitle.v)
             ELSE stringSimilarity(halTitle.v, candidateTitle.v)

\* Lines 164-177.
computeTitleSimilarity(target, candidate) ==
    LET halTitle == target.title_s
        candidateTitle == candidate.title
    IN  IF ~(Truthy(halTitle) /\ Truthy(candidateTitle)) THEN NaN
        ELSE IF halTitle.type = "array"
             THEN MaxSimilarity(halTitle.v, candidateTitle.v, Zero)
             ELSE stringSimilarity(halTitle.v, candidateTitle.v)

\* authors && authors.join(', ')
JoinedAuthors(authors) == IF Truthy(authors) THEN Str(Join(authors.v)) ELSE authors

\* Lines 190-198: the target's authors are read from its field authors_t.
computeAuthorsSimilarity(target, candidate) ==
    LET targetAuthors == JoinedAuthors(target.authors_t)
        candidateAuthors == JoinedAuthors(candidate.authors)
    IN  IF ~(Truthy(targetAuthors) /\ Truthy(candidateAuthors)) THEN NaN
        ELSE stringSimilarity(targetAuthors.v, candidateAuthors.v)

\* if (date && !(date instanceof Date)) date = new Date(date)
AsDate(date) ==
    IF Truthy(date) /\ date.type # "Date" THEN NewDate(date.v) ELSE date

Abs(a) == IF a < 0 THEN -a ELSE a

\* As computeDateSimilarity, an Invalid Date counted as no similarity at all.
computeDateSimilarity_InvalidIsZero(target, candidate) ==
    LET targetDate == AsDate(target.publicationDate_s)
        candidateDate == AsDate(candidate.date)
    IN  IF ~(Truthy(targetDate) /\ Truthy(candidateDate)) THEN NaN
        ELSE IF targetDate.v = <<>> \/ candidateDate.v = <<>>
             THEN Zero
             ELSE ExpDecay(Abs(candidateDate.v[1] - targetDate.v[1]))

\* Lines 215-235.
computeDateSimilarity(target, candidate) ==
    LET targetDate == AsDate(target.publicationDate_s)
        candidateDate == AsDate(candidate.date)
    IN  IF ~(Truthy(targetDate) /\ Truthy(candidateDate)) THEN NaN
        ELSE IF targetDate.v = <<>> \/ candidateDate.v = <<>>
             THEN NaN   \* the difference with an Invalid Date is NaN
             ELSE ExpDecay(Abs(candidateDate.v[1] - targetDate.v[1]))

\* measures.filter(measure => measure != null && !isNaN(measure))
ValidMeasures(measures) == SelectSeq(measures, LAMBDA m : ~isNaN(m))

\* measures.reduce((a, b) => a + b, a): the measures are added to a one
\* after the other, from the first one.
RECURSIVE Reduce(_, _)
Reduce(measures, a) ==
    IF measures = <<>> THEN a ELSE Reduce(Tail(measures), Plus(a, Head(measures)))

\* validMeasures.reduce((a, b) => a + b, 0)
Sum(measures) == Reduce(measures, Zero)

\* As FusedConfidence, the sum of the measures left undivided.
FusedConfidence_Sum(target, candidate) ==
    LET titleSimilarity == computeTitleSimilarity(target, candidate)
        authorsSimilarity == computeAuthorsSimilarity(target, candidate)
        dateSimilarity == computeDateSimilarity(target, candidate)
        validMeasures == ValidMeasures(<<titleSimilarity, authorsSimilarity,
                                         dateSimilarity, authorsSimilarity>>)
    IN  IF validMeasures = <<>> THEN NaN ELSE Sum(validMeasures)

\* As FusedConfidence, the authors counted once.
FusedConfidence_AuthorsOnce(target, candidate) ==
    LET titleSimilarity == computeTitleSimilarity(target, candidate)
        authorsSimilarity == computeAuthorsSimilarity(target, candidate)
        dateSimilarity == computeDateSimilarity(target, candidate)
        validMeasures == ValidMeasures(<<titleSimilarity, authorsSimilarity,
                                         dateSimilarity>>)
    IN  DivideBy(Sum(validMeasures), Len(validMeasures))

\* Lines 94-107: the fused confidence of one candidate.
FusedConfidence(target, candidate) ==
    LET titleSimilarity == computeTitleSimilarity(target, candidate)
        authorsSimilarity == computeAuthorsSimilarity(target, candidate)
        dateSimilarity == computeDateSimilarity(target, candidate)
        validMeasures == ValidMeasures(<<titleSimilarity, authorsSimilarity,
                                         dateSimilarity, authorsSimilarity>>)
    IN  DivideBy(Sum(validMeasures), Len(validMeasures))

---------------------------------------------------------------------------
(* Publications *)

MaxCandidates == 2   \* the most entries of the local folder
MaxTargets == 3      \* the most HAL publications of an answer

\* A publication as HAL holds it, with the fields the program reads.
Publication(docid, halId, doi, title, authFullName, authors, date, abstract, bibtex) ==
    [docid |-> docid, halId_s |-> halId, doiId_s |-> doi, title_s |-> title,
     authFullName_s |-> authFullName, authors_t |-> authors,
     publicationDate_s |-> date, abstract_s |-> abstract, label_bibtex |-> bibtex]

\* A target of findCorrespondingPublication, with the fields it reads.
Target(halId, doi, title, authors, date) ==
    Publication(Undefined, halId, doi, title, Undefined, authors, date,
                Undefined, Undefined)

\* The front matter of a local publication, with the fields the program reads.
Candidate(hal, doi, title, authors, date) ==
    [hal |-> hal, doi |-> doi, title |-> title, authors |-> authors, date |-> date]

\* part_000:26-31, the fields asked of HAL.
fields ==
    {"docid", "label_s", "uri_s", "title_s", "doiId_s", "halId_s",
     "abstract_s", "keyword_s", "publicationDate_s", "publicationLocation_s",
     "authFullName_s", "bookTitle_s", "conferenceTitle_s", "docType_s",
     "journalTitle_s", "label_bibtex"}

\* publication[field] in an answer to a request with fl=fields: a field that
\* was not asked for is not in the answer.
Answered(publication, field) ==
    IF field \in fields THEN publication[field] ELSE Undefined

\* part_000:42, a publication as HAL answers it.
Requested(publication) ==
    Publication(Answered(publication, "docid"), Answered(publication, "halId_s"),
                Answered(publication, "doiId_s"), Answered(publication, "title_s"),
                Answered(publication, "authFullName_s"),
                Answered(publication, "authors_t"),
                Answered(publication, "publicationDate_s"),
                Answered(publication, "abstract_s"),
                Answered(publication, "label_bibtex"))

Text_ab == <<"a", "b">>
Text_ax == <<"a", "x">>
Text_xy == <<"x", "y">>
Text_xz == <<"x", "z">>
Text_abc == <<"a", "b", "c">>
Text_aaa == <<"a", "a", "a">>
Text_baa == <<"b", "a", "a">>
Text_bba == <<"b", "b", "a">>
Text_aaaaa == <<"a", "a", "a", "a", "a">>
Text_bbaaa == <<"b", "b", "a", "a", "a">>
Text_bbbba == <<"b", "b", "b", "b", "a">>
Day_2020_06_15 == <<"2", "0", "2", "0", "-", "0", "6", "-", "1", "5">>
Day_2020_06_20 == <<"2", "0", "2", "0", "-", "0", "6", "-", "2", "0">>
Year_2021 == <<"2", "0", "2", "1">>
Month_2020_06 == <<"2", "0", "2", "0", "-", "0", "6">>
Text_soon == <<"s", "o", "o", "n">>
SomeAbstract == Arr(<<Text_ab>>)
SomeBibtex == Str(<<"@">>)

\* Targets and candidates that differ in their identifiers.  "v3" is only a
\* version suffix: nothing is left of it once the version is removed.
GateTargets ==
    { Target(halId, doi, c[1], c[2], c[3]) :
        halId \in {Undefined, Str(<<"h", "1", "v", "2">>), Str(<<"v", "3">>)},
        doi \in {Undefined, Str(<<>>), Str(<<"d">>)},
        c \in { <<Arr(<<Text_ab>>), Arr(<<<<"A">>>>), Str(Day_2020_06_15)>>,
                <<Undefined, Undefined, Undefined>> } }

GateCandidates ==
    { Candidate(hal, doi, Str(Text_xy), Undefined, Str(Year_2021)) :
        hal \in {Undefined, Str(<<"h", "1">>), Str(<<"v", "3">>)},
        doi \in {Undefined, Str(<<>>), Str(<<"d">>), Str(<<"D">>)} }

\* Targets and candidates without identifiers, that differ in the fields
\* the similarity measures read.
ScoreTargets ==
    { Target(Undefined, Undefined, c[1], c[2], c[3]) :
        c \in { <<Arr(<<Text_xy, Text_ab>>), Arr(<<<<"A">>, <<"B">>>>), Str(Day_2020_06_15)>>,
                <<Arr(<<Text_ab>>), Arr(<<<<"A">>, <<"B">>>>), Str(Text_soon)>>,
                <<Str(Text_ab), Arr(<<>>), Str(Month_2020_06)>>,
                <<Undefined, Undefined, Undefined>> } }

ScoreCandidates ==
    { Candidate(Undefined, Undefined, title, authors, date) :
        title \in {Undefined, Str(Text_ab), Str(Text_ax)},
        authors \in {Undefined, Arr(<<<<"A">>, <<"B">>>>)},
        date \in {Undefined, Str(Day_2020_06_20), Str(Text_soon),
                  DateAt(DaysFromCivil(2020, 6, 15))} }

\* Targets and candidates whose measures are not doubles of the same value
\* as the fractions they stand for: 1 - 2/3, 1 - 4/5.
CloseTargets ==
    { Target(Undefined, Undefined, Arr(<<Text_aaa>>), Arr(<<Text_aaa>>), Undefined),
      Target(Undefined, Undefined, Arr(<<Text_aaaaa>>), Arr(<<Text_aaaaa>>),
             Str(Day_2020_06_15)) }

CloseCandidates ==
    { Candidate(Undefined, Undefined, Str(Text_bba), Arr(<<Text_baa>>), Undefined),
      Candidate(Undefined, Undefined, Str(Text_aaa), Arr(<<Text_bba>>), Undefined),
      Candidate(Undefined, Undefined, Str(Text_bbaaa), Arr(<<Text_bbbba>>),
                Str(Day_2020_06_15)) }

\* Targets and candidates that differ in their titles: absent, empty, one
\* string, no variant, several variants.
TitleTargets ==
    { Target(Undefined, Undefined, title, Undefined, Undefined) :
        title \in {Undefined, Str(<<>>), Str(Text_ab), Arr(<<>>),
                   Arr(<<Text_xy, Text_ab>>), Arr(<<Text_ab, Text_xy>>),
                   Arr(<<Text_ax, <<>>>>)} }

TitleCandidates ==
    { Candidate(Undefined, Undefined, title, Undefined, Undefined) :
        title \in {Undefined, Str(<<>>), Str(Text_ab), Str(Text_ax), Str(Text_abc),
                   Str(Text_xy)} }

\* The publications HAL holds for the author: some have a local publication
\* with their identifier or their DOI, some one with a close title, some
\* none; one has no abstract, one no BibTeX entry.  HAL holds the names of
\* the authors in authFullName_s and their words in authors_t.
BatchPublications ==
    { Publication(Str(<<"1">>), Str(<<"h", "1">>), Str(<<"d">>), Arr(<<Text_ab>>),
                  Arr(<<<<"A">>>>), Arr(<<<<"A">>>>), Str(Day_2020_06_15),
                  SomeAbstract, SomeBibtex),
      Publication(Str(<<"2">>), Str(<<"h", "2", "v", "1">>), Undefined, Arr(<<Text_xy>>),
                  Arr(<<<<"A">>>>), Arr(<<<<"A">>>>), Undefined,
                  SomeAbstract, Undefined),
      Publication(Str(<<"3">>), Str(<<"h", "3">>), Undefined, Arr(<<Text_aaaaa>>),
                  Undefined, Undefined, Undefined,
                  Undefined, SomeBibtex) }

\* What a folder of the local folder holds: index.md or not, the first line
\* of index.md and what the parser of that format returns for its front
\* matter.
Folder(index, delimiter, frontMatter) ==
    [directory |-> TRUE, index |-> index, delimiter |-> delimiter,
     frontMatter |-> frontMatter]

\* An entry of the local folder that is a file.
PlainFile ==
    [directory |-> FALSE, index |-> FALSE, delimiter |-> "", frontMatter |-> Undefined]

BatchFolders ==
    { Folder(TRUE, "+++", Candidate(Undefined, Str(<<"d">>), Str(Text_ab),
                                    Arr(<<<<"A">>>>), Undefined)),
      Folder(TRUE, "---", Candidate(Str(<<"h", "2">>), Undefined, Str(Text_xz),
                                    Arr(<<<<"A">>>>), Undefined)),
      Folder(TRUE, "+++", Candidate(Undefined, Undefined, Str(Text_bbbba),
                                    Undefined, DateAt(DaysFromCivil(2020, 6, 20)))) }

\* Entries of the local folder, some of which are not the folder of a
\* publication: a file, a folder without index.md, an index.md that starts
\* with another line, a YAML front matter with nothing in it (the parser
\* returns undefined), a TOML one (the parser returns an empty table).
OddEntries ==
    { PlainFile,
      Folder(FALSE, "", Undefined),
      Folder(TRUE, "***", Undefined),
      Folder(TRUE, "---", Undefined),
      Folder(TRUE, "+++", Candidate(Undefined, Undefined, Undefined, Undefined, Undefined)),
      Folder(TRUE, "---", Candidate(Undefined, Undefined, Str(Text_ab), Undefined,
                                    Undefined)) }

Thresholds == {Num(1, 5), Num(1, 2), NaN}

SeqsUpTo(S, n) == UNION {[1..m -> S] : m \in 0..n}

\* The value of the input local-path, as the folders of a path.
LocalPath == <<"content", "publication">>

\* The local folder that holds the entries, named p1, p2, ... in the order
\* readdirSync lists them.
LocalFolder(entries) ==
    [exists |-> TRUE, path |-> LocalPath,
     entries |-> [i \in 1..Len(entries) |->
                    [name |-> "p" \o ToString(i), directory |-> entries[i].directory,
                     index |-> entries[i].index, delimiter |-> entries[i].delimiter,
                     frontMatter |-> entries[i].frontMatter]]]

\* No folder at the local path.
NoLocalFolder == [exists |-> FALSE, path |-> LocalPath, entries |-> <<>>]

\* What HAL answers: the request fails, or it is answered with a status and
\* a body; the body of a good answer is a JSON text, with or without a
\* member `response`, with or without `docs` in it.
HalAnswer(fetched, ok, text, response, docs) ==
    [fetched |-> fetched, ok |-> ok, text |-> text, response |-> response, docs |-> docs]

\* HAL answers with the publications.
HalDocs(docs) == HalAnswer(TRUE, TRUE, "", "docs", docs)

NoAnswer == HalAnswer(FALSE, FALSE, "", "undefined", <<>>)

HalFailures ==
    { NoAnswer,
      HalAnswer(TRUE, FALSE, "HTTP 500", "undefined", <<>>),
      HalAnswer(TRUE, TRUE, "", "undefined", <<>>),
      HalAnswer(TRUE, TRUE, "", "nodocs", <<>>) }

NoResult == [best |-> 0, confidence |-> Zero]

\* The state when run is called: nothing is fetched, read, found or written.
InitRun(responses, folders, thresholds) ==
    /\ halResponse \in responses
    /\ localFolder \in folders
    /\ confidenceThreshold \in thresholds
    /\ halPublications = <<>>
    /\ localPublications = <<>>
    /\ pc = "fetch"
    /\ k = 1
    /\ ci = 1
    /\ best_candidate = 0
    /\ best_confidence = Zero
    /\ confidence = NaN
    /\ ret = NoResult
    /\ results = <<>>
    /\ summaryBuffer = <<>>
    /\ summaryWritten = FALSE
    /\ files = <<>>
    /\ outputs = <<>>
    /\ failed = FALSE
    /\ message = ""
    /\ sim_str1 = <<>>
    /\ sim_str2 = <<>>
    /\ sim_result = NaN

Init ==
    \/ InitRun({HalDocs(docs) : docs \in SeqsUpTo(BatchPublications, MaxTargets)},
               {LocalFolder(entries) : entries \in SeqsUpTo(BatchFolders, MaxCandidates)},
               Thresholds)
    \/ InitRun(HalFailures,
               {LocalFolder(entries) : entries \in SeqsUpTo(BatchFolders, 1)},
               {Num(1, 2)})
    \/ InitRun({HalDocs(docs) : docs \in SeqsUpTo(BatchPublications, 1)},
               {NoLocalFolder}
                   \cup {LocalFolder(entries) : entries \in SeqsUpTo(OddEntries, MaxCandidates)},
               {Num(1, 2)})

\* findCorrespondingPublication is called on one target: run is not started
\* and nothing is asked of HAL nor of the local folder.
InitFindFrom(targets, candidates) ==
    /\ halResponse = NoAnswer
    /\ localFolder = NoLocalFolder
    /\ confidenceThreshold = Num(1, 2)
    /\ halPublications \in {<<t>> : t \in targets}
    /\ localPublications \in SeqsUpTo(candidates, MaxCandidates)
    /\ pc = "compare"
    /\ k = 1
    /\ ci = 1
    /\ best_candidate = 0
    /\ best_confidence = Zero
    /\ confidence = NaN
    /\ ret = NoResult
    /\ results = <<>>
    /\ summaryBuffer = <<>>
    /\ summaryWritten = FALSE
    /\ files = <<>>
    /\ outputs = <<>>
    /\ failed = FALSE
    /\ message = ""
    /\ sim_str1 = <<>>
    /\ sim_str2 = <<>>
    /\ sim_result = NaN

---------------------------------------------------------------------------
(* run: the publications of HAL *)

\* main.ts:53-56: the error is caught and run ends.
Caught(text) ==
    /\ failed' = TRUE
    /\ message' = text
    /\ pc' = "done"

\* part_000:45, the request is answered.
Fetch ==
    /\ pc = "fetch"
    /\ halResponse.fetched
    /\ pc' = "body"
    /\ UNCHANGED <<inputVars, simVars, halPublications, localPublications, k, ci,
                   best_candidate, best_confidence, confidence, ret, results,
                   summaryBuffer, summaryWritten, files, outputs, failed, message>>

\* part_000:45, the request fails: fetch rejects with a TypeError.
FetchRejects ==
    /\ pc = "fetch"
    /\ ~halResponse.fetched
    /\ Caught("fetch failed")
    /\ UNCHANGED <<inputVars, simVars, halPublications, localPublications, k, ci,
                   best_candidate, best_confidence, confidence, ret, results,
                   summaryBuffer, summaryWritten, files, outputs>>

\* part_000:46-48 and main.ts:16-17, the body holds the publications.
ReadJson ==
    /\ pc = "body"
    /\ halResponse.ok
    /\ halResponse.response = "docs"
    /\ halPublications' = [i \in 1..Len(halResponse.docs) |->
                             Requested(halResponse.docs[i])]
    /\ pc' = "local"
    /\ UNCHANGED <<inputVars, simVars, localPublications, k, ci,
                   best_candidate, best_confidence, confidence, ret, results,
                   summaryBuffer, summaryWritten, files, outputs, failed, message>>

\* part_000:48 and main.ts:17: data.response is undefined and reading its
\* docs throws, or docs is undefined and reading its length throws.
ReadJsonThrows ==
    /\ pc = "body"
    /\ halResponse.ok
    /\ halResponse.response # "docs"
    /\ Caught(IF halResponse.response = "undefined"
              THEN "Cannot read properties of undefined (reading 'docs')"
              ELSE "Cannot read properties of undefined (reading 'length')")
    /\ UNCHANGED <<inputVars, simVars, halPublications, localPublications, k, ci,
                   best_candidate, best_confidence, confidence, ret, results,
                   summaryBuffer, summaryWritten, files, outputs>>

\* part_000:50-51, the status is an error: the body is thrown as an Error.
ReadText ==
    /\ pc = "body"
    /\ ~halResponse.ok
    /\ Caught(halResponse.text)
    /\ UNCHANGED <<inputVars, simVars, halPublications, localPublications, k, ci,
                   best_candidate, best_confidence, confidence, ret, results,
                   summaryBuffer, summaryWritten, files, outputs>>

---------------------------------------------------------------------------
(* run: the local publications *)

\* The text of a path.
RECURSIVE PathText(_)
PathText(path) ==
    IF Len(path) = 1 THEN path[1]
    ELSE path[1] \o "/" \o PathText(Tail(path))

\* path.basename(path)
basename(path) == path[Len(path)]

\* Lines 26-30 of listExistingPublications: the entries that are folders.
directories == SelectSeq(localFolder.entries, LAMBDA entry : entry.directory)

\* path.join(dir.parentPath, dir.name)
FolderPath(dir) == Append(localFolder.path, dir.name)

\* readExistingPublicationDetails throws: no index.md to read, a first line
\* that is neither +++ nor ---, or nothing parsed to set folderPath on.
ReadThrows(dir) ==
    \/ ~dir.index
    \/ dir.delimiter \notin {"+++", "---"}
    \/ dir.frontMatter = Undefined

\* The message of what it throws.
ReadError(dir) ==
    IF ~dir.index
    THEN "ENOENT: no such file or directory, open '"
             \o PathText(Append(FolderPath(dir), "index.md")) \o "'"
    ELSE IF dir.delimiter \notin {"+++", "---"}
    THEN "Unrecognized delimiter: " \o dir.delimiter
    ELSE "Cannot set properties of undefined (setting 'folderPath')"

\* Lines 40-63: the parsed front matter, with the folder it was read from.
readExistingPublicationDetails(dir) ==
    LET document == dir.frontMatter
    IN  [hal |-> document.hal, doi |-> document.doi, title |-> document.title,
         authors |-> document.authors, date |-> document.date,
         folderPath |-> FolderPath(dir), folderName |-> basename(FolderPath(dir))]

\* main.ts:22 and lines 13-17: every folder is read.
GetLocalPublications ==
    /\ pc = "local"
    /\ localFolder.exists
    /\ \A i \in 1..Len(directories) : ~ReadThrows(directories[i])
    /\ localPublications' = [i \in 1..Len(directories) |->
                               readExistingPublicationDetails(directories[i])]
    /\ pc' = "compare"
    /\ UNCHANGED <<inputVars, simVars, halPublications, k, ci,
                   best_candidate, best_confidence, confidence, ret, results,
                   summaryBuffer, summaryWritten, files, outputs, failed, message>>

\* main.ts:22: readdirSync throws when there is no folder, and the first
\* folder that cannot be read ends the reading of all of them.
GetLocalPublicationsThrows ==
    /\ pc = "local"
    /\ \/ ~localFolder.exists
       \/ \E i \in 1..Len(directories) : ReadThrows(directories[i])
    /\ IF ~localFolder.exists
       THEN Caught("ENOENT: no such file or directory, scandir '"
                       \o PathText(localFolder.path) \o "'")
       ELSE LET first == CHOOSE i \in 1..Len(directories) :
                            /\ ReadThrows(directories[i])
                            /\ \A j \in 1..(i - 1) : ~ReadThrows(directories[j])
            IN  Caught(ReadError(directories[first]))
    /\ UNCHANGED <<inputVars, simVars, halPublications, localPublications, k, ci,
                   best_candidate, best_confidence, confidence, ret, results,
                   summaryBuffer, summaryWritten, files, outputs>>

---------------------------------------------------------------------------
(* findCorrespondingPublication, one step per candidate *)

target == halPublications[k]
candidate == localPublications[ci]

\* As CallFind, the best candidate and confidence kept from one call to the
\* next.
CallFind_KeepBest ==
    /\ pc = "compare"
    /\ k <= Len(halPublications)
    /\ ci' = 1
    /\ pc' = "find"
    /\ UNCHANGED <<inputVars, simVars, halPublications, localPublications, k,
                   best_candidate, best_confidence, confidence, ret, results,
                   summaryBuffer, summaryWritten, files, outputs, failed, message>>

\* main.ts:29-30 and local_publications.js:83-84: the next target is passed
\* to findCorrespondingPublication, whose locals start afresh.
CallFind ==
    /\ pc = "compare"
    /\ k <= Len(halPublications)
    /\ best_candidate' = 0
    /\ best_confidence' = Zero
    /\ ci' = 1
    /\ pc' = "find"
    /\ UNCHANGED <<inputVars, simVars, halPublications, localPublications, k,
                   confidence, ret, results,
                   summaryBuffer, summaryWritten, files, outputs, failed, message>>

\* As ReturnSameHalID, the candidate remembered and the loop continued.
ReturnSameHalID_KeepLooking ==
    /\ pc = "find"
    /\ ci <= Len(localPublications)
    /\ haveSameHalID(target, candidate)
    /\ best_candidate' = ci
    /\ best_confidence' = One
    /\ ci' = ci + 1
    /\ UNCHANGED <<inputVars, simVars, halPublications, localPublications, pc, k,
                   confidence, ret, results,
                   summaryBuffer, summaryWritten, files, outputs, failed, message>>

\* Lines 86-88.
ReturnSameHalID ==
    /\ pc = "find"
    /\ ci <= Len(localPublications)
    /\ haveSameHalID(target, candidate)
    /\ ret' = [best |-> ci, confidence |-> One]
    /\ pc' = "classify"
    /\ UNCHANGED <<inputVars, simVars, halPublications, localPublications, k, ci,
                   best_candidate, best_confidence, confidence, results,
                   summaryBuffer, summaryWritten, files, outputs, failed, message>>

\* Lines 89-92.
ReturnSameDOI ==
    /\ pc = "find"
    /\ ci <= Len(localPublications)
    /\ ~haveSameHalID(target, candidate)
    /\ haveSameDOI(target, candidate)
    /\ ret' = [best |-> ci, confidence |-> One]
    /\ pc' = "classify"
    /\ UNCHANGED <<inputVars, simVars, halPublications, localPublications, k, ci,
                   best_candidate, best_confidence, confidence, results,
                   summaryBuffer, summaryWritten, files, outputs, failed, message>>

\* Lines 94-111.
ScoreCandidate ==
    /\ pc = "find"
    /\ ci <= Len(localPublications)
    /\ ~haveSameHalID(target, candidate)
    /\ ~haveSameDOI(target, candidate)
    /\ confidence' = FusedConfidence(target, candidate)
    /\ IF GreaterThan(confidence', best_confidence)
       THEN best_confidence' = confidence' /\ best_candidate' = ci
       ELSE UNCHANGED <<best_confidence, best_candidate>>
    /\ ci' = ci + 1
    /\ UNCHANGED <<inputVars, simVars, halPublications, localPublications, pc, k,
                   ret, results,
                   summaryBuffer, summaryWritten, files, outputs, failed, message>>

\* Line 114.
ReturnBest ==
    /\ pc = "find"
    /\ ci > Len(localPublications)
    /\ ret' = [best |-> best_candidate, confidence |-> best_confidence]
    /\ pc' = "classify"
    /\ UNCHANGED <<inputVars, simVars, halPublications, localPublications, k, ci,
                   best_candidate, best_confidence, confidence, results,
                   summaryBuffer, summaryWritten, files, outputs, failed, message>>

---------------------------------------------------------------------------
(* run: the results *)

\* main.ts:31-38, for a result whose best is a publication.
PushResult ==
    /\ pc = "classify"
    /\ ret.best # 0
    /\ LET accepted == GreaterOrEqual(ret.confidence, confidenceThreshold)
       IN  results' = Append(results, [target |-> target, candidate |-> ret.best,
                                       confidence |-> ret.confidence,
                                       accepted |-> accepted])
    /\ k' = k + 1
    /\ pc' = "compare"
    /\ UNCHANGED <<inputVars, simVars, halPublications, localPublications, ci,
                   best_candidate, best_confidence, confidence, ret,
                   summaryBuffer, summaryWritten, files, outputs, failed, message>>

\* As DebugThrows, the debug message built without reading the null best:
\* the result is pushed and the loop goes on.
DebugThrows_GoesOn ==
    /\ pc = "classify"
    /\ ret.best = 0
    /\ LET accepted == GreaterOrEqual(ret.confidence, confidenceThreshold)
       IN  results' = Append(results, [target |-> target, candidate |-> ret.best,
                                       confidence |-> ret.confidence,
                                       accepted |-> accepted])
    /\ k' = k + 1
    /\ pc' = "compare"
    /\ UNCHANGED <<inputVars, simVars, halPublications, localPublications, ci,
                   best_candidate, best_confidence, confidence, ret,
                   summaryBuffer, summaryWritten, files, outputs, failed, message>>

\* main.ts:32 and 53-56: best['folderName'] of a null best throws a
\* TypeError, which the catch block reports.
DebugThrows ==
    /\ pc = "classify"
    /\ ret.best = 0
    /\ Caught("Cannot read properties of null (reading 'folderName')")
    /\ UNCHANGED <<inputVars, simVars, halPublications, localPublications, k, ci,
                   best_candidate, best_confidence, confidence, ret, results,
                   summaryBuffer, summaryWritten, files, outputs>>

---------------------------------------------------------------------------
(* run: the summary.  logToSummary waits for core.summary.clear(), then for *)
(* core.summary.write(), and run waits for logToSummary.                    *)

\* A call that adds to the buffer of core.summary, with what it shows of a
\* result.
SummaryCall(call, data) == [call |-> call, data |-> data]

\* main.ts:75-77, the counts.
SummaryCounts ==
    LET notFound == Len(SelectSeq(results, LAMBDA result : ~result.accepted))
        found == Len(SelectSeq(results, LAMBDA result : result.accepted))
    IN  <<SummaryCall("addRaw", <<found, notFound, notFound + found>>),
          SummaryCall("addBreak", <<>>)>>

\* main.ts:81-83: results.toSorted((res1, res2) => res1.accepted - res2.accepted),
\* a stable sort that puts the results that are not accepted first.
sortedResults ==
    SelectSeq(results, LAMBDA result : ~result.accepted)
        \o SelectSeq(results, LAMBDA result : result.accepted)

\* main.ts:102-149, the calls made for one result: the heading shows the
\* docid of the target, and the table a row for the HAL identifiers, the
\* DOIs (read from the field doi_s of the target, which no publication
\* has), the titles, the authors and the dates.  The texts of the
\* confidence and of the link are not in the model.
logSinglePublicationToSummary(result) ==
    LET halPublication == result.target
        bestPublication == localPublications[result.candidate]
    IN  <<SummaryCall("addHeading", <<result.accepted, halPublication.docid>>),
          SummaryCall("addEOL", <<>>),
          SummaryCall("addRaw", <<>>),
          SummaryCall("addBreak", <<>>),
          SummaryCall("addLink", <<>>),
          SummaryCall("addBreak", <<>>),
          SummaryCall("addTable",
                      <<<<halPublication.halId_s, bestPublication.hal>>,
                        <<Undefined, bestPublication.doi>>,
                        <<halPublication.title_s, bestPublication.title>>,
                        <<halPublication.authors_t, bestPublication.authors>>,
                        <<halPublication.publicationDate_s, bestPublication.date>>>>),
          SummaryCall("addBreak", <<>>)>>

\* main.ts:85-87
RECURSIVE SummarySections(_)
SummarySections(sorted) ==
    IF sorted = <<>> THEN <<>>
    ELSE logSinglePublicationToSummary(Head(sorted)) \o SummarySections(Tail(sorted))

\* main.ts:39-42 and 72: the loop is over, logToSummary is called and calls
\* core.summary.clear(), which empties the buffer.
ClearSummary ==
    /\ pc = "compare"
    /\ k > Len(halPublications)
    /\ summaryBuffer' = <<>>
    /\ pc' = "clear"
    /\ UNCHANGED <<inputVars, simVars, halPublications, localPublications, k, ci,
                   best_candidate, best_confidence, confidence, ret, results,
                   summaryWritten, files, outputs, failed, message>>

\* main.ts:72-89: clear() is over; the counts and the sections are added to
\* the buffer and core.summary.write() is called.
FillSummary ==
    /\ pc = "clear"
    /\ summaryBuffer' = summaryBuffer \o SummaryCounts \o SummarySections(sortedResults)
    /\ pc' = "write"
    /\ UNCHANGED <<inputVars, simVars, halPublications, localPublications, k, ci,
                   best_candidate, best_confidence, confidence, ret, results,
                   summaryWritten, files, outputs, failed, message>>

\* main.ts:89-90: write() is over and logToSummary returns.
WriteSummary ==
    /\ pc = "write"
    /\ summaryWritten' = TRUE
    /\ pc' = "create"
    /\ UNCHANGED <<inputVars, simVars, halPublications, localPublications, k, ci,
                   best_candidate, best_confidence, confidence, ret, results,
                   summaryBuffer, files, outputs, failed, message>>

---------------------------------------------------------------------------
(* run: the pull request *)

\* results.filter(result => !result.accepted).map(result => result.target)
missingPublications ==
    LET missing == SelectSeq(results, LAMBDA r : ~r.accepted)
    IN  [i \in 1..Len(missing) |-> missing[i].target]

\* createIndexMdFile reads publication['abstract_s'].join: a TypeError when
\* the publication has no abstract.
CreateFilesThrows(publication) == publication.abstract_s.type # "array"

\* createFiles: index.md, and cite.bib when there is a BibTeX entry, in the
\* folder named after the HAL identifier.
createFiles(publication) ==
    LET indexMd == [folder |-> publication.halId_s, name |-> "index.md"]
        citeBib == [folder |-> publication.halId_s, name |-> "cite.bib"]
    IN  IF Truthy(publication.label_bibtex) THEN <<indexMd, citeBib>> ELSE <<indexMd>>

\* The files of the publications before the first one whose files cannot
\* be created.
RECURSIVE FilesOf(_)
FilesOf(publications) ==
    IF publications = <<>> \/ CreateFilesThrows(Head(publications)) THEN <<>>
    ELSE createFiles(Head(publications)) \o FilesOf(Tail(publications))

\* main.ts:42-51 and createPullRequests: run goes on after logToSummary.
CreatePullRequests ==
    /\ pc = "create"
    /\ files' = files \o FilesOf(missingPublications)
    /\ IF \E i \in 1..Len(missingPublications) : CreateFilesThrows(missingPublications[i])
       THEN /\ failed' = TRUE
            /\ message' = "Cannot read properties of undefined (reading 'join')"
            /\ UNCHANGED outputs
       ELSE /\ outputs' = <<[name |-> "created-files", value |-> FilesOf(missingPublications)],
                            [name |-> "body",
                             value |-> [i \in 1..Len(missingPublications) |->
                                          missingPublications[i].halId_s]]>>
            /\ UNCHANGED <<failed, message>>
    /\ pc' = "done"
    /\ UNCHANGED <<inputVars, simVars, halPublications, localPublications, k, ci,
                   best_candidate, best_confidence, confidence, ret, results,
                   summaryBuffer, summaryWritten>>

Next ==
    \/ Fetch
    \/ FetchRejects
    \/ ReadJson
    \/ ReadJsonThrows
    \/ ReadText
    \/ GetLocalPublications
    \/ GetLocalPublicationsThrows
    \/ CallFind
    \/ ReturnSameHalID
    \/ ReturnSameDOI
    \/ ScoreCandidate
    \/ ReturnBest
    \/ PushResult
    \/ DebugThrows
    \/ ClearSummary
    \/ FillSummary
    \/ WriteSummary
    \/ CreatePullRequests

Spec == Init /\ [][Next]_vars

---------------------------------------------------------------------------
(* findCorrespondingPublication on its own *)

InitFind ==
    \/ InitFindFrom(GateTargets, GateCandidates)
    \/ InitFindFrom(ScoreTargets, ScoreCandidates)
    \/ InitFindFrom(CloseTargets, CloseCandidates)
    \/ InitFindFrom(TitleTargets, TitleCandidates)

\* The call, the loop over the candidates and the return.
NextFind ==
    \/ CallFind
    \/ ReturnSameHalID
    \/ ReturnSameDOI
    \/ ScoreCandidate
    \/ ReturnBest

SpecFind == InitFind /\ [][NextFind]_vars

---------------------------------------------------------------------------
(* stringSimilarity on its own *)

MaxLength == 2   \* the most characters of a string

Letters == {"a", "b", "x"}

Texts == UNION {[1..n -> Letters] : n \in 0..MaxLength}

\* A call of stringSimilarity on any two strings; run is not started.
InitStrings ==
    /\ sim_str1 \in Texts
    /\ sim_str2 \in Texts
    /\ sim_result = NaN
    /\ pc = "stringSimilarity"
    /\ halResponse = NoAnswer
    /\ localFolder = NoLocalFolder
    /\ confidenceThreshold = Num(1, 2)
    /\ halPublications = <<>>
    /\ localPublications = <<>>
    /\ k = 1
    /\ ci = 1
    /\ best_candidate = 0
    /\ best_confidence = Zero
    /\ confidence = NaN
    /\ ret = NoResult
    /\ results = <<>>
    /\ summaryBuffer = <<>>
    /\ summaryWritten = FALSE
    /\ files = <<>>
    /\ outputs = <<>>
    /\ failed = FALSE
    /\ message = ""

\* Lines 254-258.
CallStringSimilarity ==
    /\ pc = "stringSimilarity"
    /\ sim_result' = stringSimilarity(sim_str1, sim_str2)
    /\ pc' = "returned"
    /\ UNCHANGED <<inputVars, sim_str1, sim_str2, halPublications, localPublications,
                   k, ci, best_candidate, best_confidence,
                   confidence, ret, results, summaryBuffer, summaryWritten,
                   files, outputs, failed, message>>

NextStrings == CallStringSimilarity

SpecStrings == InitStrings /\ [][NextStrings]_vars

---------------------------------------------------------------------------
(* Properties of findCorrespondingPublication.  In a state with            *)
(* pc = "classify" the call for halPublications[k] has just returned ret,  *)
(* and ci is the last candidate the loop looked at.                        *)

Returned == pc = "classify"
Candidates == 1..Len(localPublications)

\* The HAL identifiers are strings, equal once the version is removed, and
\* something is left of them.
SameNormalizedId(t, c) ==
    /\ t.halId_s.type = "string" /\ c.hal.type = "string"
    /\ ReplaceVersion(t.halId_s.v) # <<>>
    /\ ReplaceVersion(t.halId_s.v) = ReplaceVersion(c.hal.v)

\* Both DOIs are strings, and the same string.
SameDoiString(t, c) ==
    /\ t.doiId_s.type = "string" /\ c.doi.type = "string"
    /\ t.doiId_s.v = c.doi.v

\* Both DOIs are present, the empty string counting as absent, and equal.
SamePresentDoi(t, c) == SameDoiString(t, c) /\ t.doiId_s.v # <<>>

GateFires(t, c) == SameNormalizedId(t, c) \/ SameDoiString(t, c)

\* C1 as stated: whenever a candidate has the target's normalized, non-empty
\* HAL identifier, the result is that candidate with confidence 1.0.
C1_AnySameIdIsReturned ==
    Returned =>
        \A j \in Candidates :
            SameNormalizedId(target, localPublications[j]) =>
                /\ ret.best # 0
                /\ localPublications[ret.best] = localPublications[j]
                /\ ret.confidence = One

\* C1 (amended): whenever a candidate C has the target's normalized,
\* non-empty HAL identifier, the confidence is 1.0 and the result is C or a
\* candidate before C; it is C when no candidate before C has that
\* identifier or a DOI string equal to the target's.
C1_SameIdIsCertain ==
    Returned =>
        \A j \in Candidates :
            SameNormalizedId(target, localPublications[j]) =>
                /\ ret.confidence = One
                /\ ret.best \in 1..j
                /\ (\A i \in 1..(j - 1) : ~GateFires(target, localPublications[i]))
                       => ret.best = j

\* A second candidate is returned for its identifier, which differs from the
\* target's by the version, while the first one was passed over and both
\* its title and its date differ from the target's.
C1_Witness ==
    /\ Returned
    /\ ret = [best |-> 2, confidence |-> One]
    /\ SameNormalizedId(target, localPublications[2])
    /\ target.halId_s.v # localPublications[2].hal.v
    /\ ~GateFires(target, localPublications[1])
    /\ Truthy(target.title_s)
    /\ computeTitleSimilarity(target, localPublications[2]) = Zero

\* C2: the DOI rule returns a candidate exactly when both DOIs are present
\* (neither absent nor empty) and equal, and then with confidence 1.0: a
\* candidate returned without the HAL identifier rule has such a DOI, and a
\* candidate the loop went past has not.
C2_DoiRuleOnlyOnPresentDoi ==
    /\ (Returned /\ ci \in Candidates /\ ~SameNormalizedId(target, candidate)) =>
           SamePresentDoi(target, candidate) /\ ret.confidence = One
    /\ pc = "find" =>
           \A j \in 1..(ci - 1) : ~SamePresentDoi(target, localPublications[j])

\* C3: when some candidate passes the exact-match gate, the result is the
\* first such candidate with confidence 1.0, and the loop stopped there.
C3_FirstExactMatchWins ==
    (Returned /\ \E j \in Candidates : GateFires(target, localPublications[j])) =>
        LET first == CHOOSE j \in Candidates :
                        /\ GateFires(target, localPublications[j])
                        /\ \A i \in 1..(j - 1) : ~GateFires(target, localPublications[i])
        IN  ret = [best |-> first, confidence |-> One] /\ ci = first

\* The first candidate is returned for its DOI although the second one has
\* the target's HAL identifier.
C3_Witness ==
    /\ Returned
    /\ Len(localPublications) = 2
    /\ ~SameNormalizedId(target, localPublications[1])
    /\ SamePresentDoi(target, localPublications[1])
    /\ SameNormalizedId(target, localPublications[2])
    /\ ret.best = 1 /\ ci = 1

\* C4: the result has no best candidate exactly when there was no
\* candidate, and its confidence is then 0.
C4_NullOnlyWhenNoCandidate ==
    Returned =>
        /\ ret.best = 0 <=> localPublications = <<>>
        /\ ret.best = 0 => ret.confidence = Zero

\* 0 <= x and x <= 1, which no NaN satisfies.
InUnitInterval(x) == GreaterOrEqual(x, Zero) /\ GreaterOrEqual(One, x)

\* C5: the confidence returned is a number of [0, 1], never NaN.
C5_ConfidenceInUnitInterval ==
    /\ InUnitInterval(best_confidence)
    /\ InUnitInterval(ret.confidence)

\* A result after a candidate with no computable measure (its fused
\* confidence is NaN) and one with an unparseable date.
C5_Witness ==
    /\ Returned
    /\ Len(localPublications) = 2
    /\ ci = 3
    /\ isNaN(confidence)
    /\ localPublications[1].date = Str(Text_soon)
    /\ ret.best = 1

\* In a state with pc = "find" and ci > 1 the candidate before ci has just
\* been scored, and confidence is its fused confidence.
Scored == pc = "find" /\ ci > 1
scored == localPublications[ci - 1]

\* The mean of the computable values among title, authors, date, authors,
\* added in that order; NaN when there is none.  A value that is not
\* computable adds nothing to the total and nothing to the count.
MeanOfComputable(title, authors, date) ==
    LET Value(x) == IF isNaN(x) THEN Zero ELSE x
        Count(x) == IF isNaN(x) THEN 0 ELSE 1
        total == Plus(Plus(Plus(Value(title), Value(authors)), Value(date)),
                      Value(authors))
        count == Count(title) + 2 * Count(authors) + Count(date)
    IN  IF count = 0 THEN NaN ELSE DivideBy(total, count)

\* C6: the fused confidence of a scored candidate is the mean of the
\* computable values among title, authors, date and authors again.
C6_FusedIsMeanOfComputable ==
    Scored =>
        confidence = MeanOfComputable(computeTitleSimilarity(target, scored),
                                      computeAuthorsSimilarity(target, scored),
                                      computeDateSimilarity(target, scored))

\* Title 1, authors 1 and a date five days off:
\* (3 + 0.9672161004820059) / 4 = 0.9918040251205015.
C6_Witness ==
    /\ Scored
    /\ computeTitleSimilarity(target, scored) = One
    /\ computeAuthorsSimilarity(target, scored) = One
    /\ computeDateSimilarity(target, scored) = Double(FALSE, 8113596, 771195908, -53)
    /\ confidence = Double(FALSE, 8319855, 192798977, -53)

FusedOf(j) == FusedConfidence(target, localPublications[j])

\* C7: when the loop ends without an exact match, the result is the first
\* candidate whose fused confidence is the greatest, with that confidence.
C7_EarliestMaximumIsReturned ==
    (Returned /\ ci > Len(localPublications)
       /\ \E j \in Candidates : ~isNaN(FusedOf(j))) =>
        LET IsMax(j) == /\ ~isNaN(FusedOf(j))
                        /\ \A i \in Candidates :
                              isNaN(FusedOf(i)) \/ GreaterOrEqual(FusedOf(j), FusedOf(i))
            first == CHOOSE j \in Candidates :
                        IsMax(j) /\ \A i \in 1..(j - 1) : ~IsMax(i)
        IN  ret = [best |-> first, confidence |-> FusedOf(first)]

\* A non-empty string that new Date() cannot parse.
UnparseableDate(x) == x.type = "string" /\ x.v # <<>> /\ NewDate(x.v) = InvalidDate

\* C8: with an unparseable date on either side nothing is raised, and the
\* fused confidence is the mean of the computable title and authors
\* similarities, the authors counted twice.
C8_UnparseableDateIsSkipped ==
    (Scored /\ (UnparseableDate(target.publicationDate_s) \/ UnparseableDate(scored.date))) =>
        /\ ~failed
        /\ confidence = MeanOfComputable(computeTitleSimilarity(target, scored),
                                         computeAuthorsSimilarity(target, scored),
                                         NaN)

\* The target's date cannot be parsed, the candidate's can: title 1/2 and
\* authors 1 give (1/2 + 1 + 1) / 3 = 0.8333333333333334.
C8_Witness ==
    /\ Scored
    /\ UnparseableDate(target.publicationDate_s)
    /\ Truthy(scored.date) /\ ~UnparseableDate(scored.date)
    /\ confidence = Double(FALSE, 6990506, 715827883, -53)

\* The result for a target is the result every earlier call of the batch
\* gave for an equal target.
SameInputsSameResult ==
    /\ \A i, j \in 1..Len(results) :
           results[i].target = results[j].target =>
               /\ results[i].candidate = results[j].candidate
               /\ results[i].confidence = results[j].confidence
    /\ Returned =>
           \A i \in 1..Len(results) :
               results[i].target = target =>
                   ret = [best |-> results[i].candidate,
                          confidence |-> results[i].confidence]

\* No step of a call of findCorrespondingPublication, from the loop of run
\* that makes it to its return, changes the targets or the candidates.
InputsKept ==
    pc \in {"compare", "find"} =>
        /\ halPublications' = halPublications
        /\ localPublications' = localPublications

\* C9: findCorrespondingPublication never modifies the targets nor the
\* candidates (no step of a call, from the loop of run that makes it to its
\* return, changes them), and its result for a target does not depend on
\* the calls made before: equal targets of a batch get equal results,
\* whatever was matched between them.
C9_Pure == []SameInputsSameResult /\ [][InputsKept]_vars

\* The same target matched first and third, another target with another
\* result in between.
C9_Witness ==
    /\ Len(results) = 3
    /\ results[1].target = results[3].target
    /\ results[2].target # results[1].target
    /\ results[2].candidate # results[1].candidate
    /\ results[2].confidence # results[1].confidence
    /\ results[3].candidate = results[1].candidate

\* HAL answered with publications and every folder of the local folder was
\* read: run reaches its loop.
InputsRead ==
    /\ halResponse.fetched /\ halResponse.ok /\ halResponse.response = "docs"
    /\ localFolder.exists
    /\ \A i \in 1..Len(directories) : ~ReadThrows(directories[i])

\* C10: when a run that read its inputs ends, every target has one result,
\* in order, accepted exactly when its confidence reaches the threshold;
\* the pull request lists the targets that were not accepted, in order, and
\* every file created is in the folder of such a target.
C10_EveryTargetClassified ==
    (pc = "done" /\ InputsRead) =>
        /\ Len(results) = Len(halPublications)
        /\ \A i \in 1..Len(results) :
               /\ results[i].target = halPublications[i]
               /\ results[i].accepted <=>
                      GreaterOrEqual(results[i].confidence, confidenceThreshold)
        /\ \A i \in 1..Len(files) :
               \E j \in 1..Len(results) :
                   ~results[j].accepted /\ files[i].folder = results[j].target.halId_s

---------------------------------------------------------------------------
(* Properties of run when a target has no best candidate *)

\* The message of the TypeError thrown by best['folderName'] on a null best.
NullBestMessage == "Cannot read properties of null (reading 'folderName')"

\* The step taken from a result whose best is null: the error is reported
\* and run is over, with no summary, no file and no output.
NullBestStopsRun ==
    (Returned /\ ret.best = 0) =>
        /\ failed'
        /\ message' = NullBestMessage
        /\ pc' = "done"
        /\ summaryBuffer' = <<>>
        /\ ~summaryWritten'
        /\ files' = <<>>
        /\ outputs' = <<>>
        /\ results' = results

\* A run that reported a null best is over; it stopped in the loop, and
\* nothing was written, created or set.
StoppedRunLeftNothing ==
    message = NullBestMessage =>
        /\ pc = "done"
        /\ failed
        /\ ret.best = 0
        /\ Len(results) < Len(halPublications)
        /\ summaryBuffer = <<>>
        /\ ~summaryWritten
        /\ files = <<>>
        /\ outputs = <<>>

\* C13: when the match result of a target has a null best, run throws while
\* building that target's debug message and reports the error with
\* setFailed; from then on the summary is not written, no file is created
\* for any target, the earlier ones included, and no output is set.
C13_NullBestFailsRun ==
    /\ [][NullBestStopsRun]_vars
    /\ []StoppedRunLeftNothing

\* Run stopped on the null best of a later target, after an earlier target
\* was found missing: its files are not created.
C13_Witness ==
    /\ pc = "done"
    /\ failed
    /\ message = NullBestMessage
    /\ ret.best = 0
    /\ localPublications # <<>>
    /\ Len(results) >= 1
    /\ ~results[1].accepted
    /\ ~CreateFilesThrows(results[1].target)
    /\ ~summaryWritten
    /\ files = <<>>
    /\ outputs = <<>>

---------------------------------------------------------------------------
(* Properties of computeTitleSimilarity, on the candidate just scored *)

Absent(x) == x.type = "undefined"
AbsentOrEmpty(x) == Absent(x) \/ (x.type = "string" /\ x.v = <<>>)

\* The similarities of the variants of a title to a candidate title.
VariantSimilarities(variants, title) ==
    {stringSimilarity(variants[i], title) : i \in 1..Len(variants)}

GreatestOf(S) == CHOOSE m \in S : \A x \in S : ~GreaterThan(x, m)

\* The title similarity is not computable when a title is absent; else it is
\* the greatest similarity of a variant, or the similarity of the one
\* string, to the title of the candidate.
C11_ComputableUnlessAbsent ==
    Scored =>
        LET halTitle == target.title_s
            candidateTitle == scored.title
            similarity == computeTitleSimilarity(target, scored)
        IN  IF Absent(halTitle) \/ Absent(candidateTitle) THEN isNaN(similarity)
            ELSE IF halTitle.type = "array"
                 THEN halTitle.v # <<>> =>
                          similarity = GreatestOf(VariantSimilarities(halTitle.v,
                                                                      candidateTitle.v))
                 ELSE similarity = stringSimilarity(halTitle.v, candidateTitle.v)

TitleSimilarityOf(t, c) ==
    LET halTitle == t.title_s
        candidateTitle == c.title
    IN  IF AbsentOrEmpty(halTitle) \/ AbsentOrEmpty(candidateTitle) THEN NaN
        ELSE IF halTitle.type = "array"
             THEN IF halTitle.v = <<>> THEN Zero
                  ELSE GreatestOf(VariantSimilarities(halTitle.v, candidateTitle.v))
             ELSE stringSimilarity(halTitle.v, candidateTitle.v)

\* C11: the title similarity is not computable when the title of the target
\* or of the candidate is absent or the empty string; else, for a sequence
\* of variants, it is the greatest string similarity of a variant to the
\* title of the candidate (0 for no variant), and for one string the string
\* similarity of that string to the title of the candidate.  With no
\* authors and no date to compare, it is the confidence of the candidate.
C11_TitleSimilarity ==
    Scored =>
        /\ computeTitleSimilarity(target, scored) = TitleSimilarityOf(target, scored)
        /\ (Absent(target.authors_t) /\ Absent(target.publicationDate_s)) =>
               confidence = TitleSimilarityOf(target, scored)

\* The second of two variants is the closer one.
C11_Witness ==
    /\ Scored
    /\ target.title_s = Arr(<<Text_xy, Text_ab>>)
    /\ scored.title = Str(Text_ax)
    /\ stringSimilarity(Text_xy, Text_ax) = Zero
    /\ confidence = Num(1, 2)

---------------------------------------------------------------------------
(* Properties of stringSimilarity, once the call has returned *)

SimilarityReturned == pc = "returned"

\* The value returned is 1 - distance / max(len), lies in [0, 1], is the
\* value of the call with the strings exchanged, and is 1 for equal strings.
SimilarityIsSound ==
    LET longest == IF Len(sim_str1) >= Len(sim_str2)
                   THEN Len(sim_str1) ELSE Len(sim_str2)
    IN  /\ sim_result = Minus(One, Num(levenshtein(sim_str1, sim_str2), longest))
        /\ InUnitInterval(sim_result)
        /\ sim_result = stringSimilarity(sim_str2, sim_str1)
        /\ (sim_str1 = sim_str2) => sim_result = One

\* stringSimilarity is sound on any two strings.
C12_SoundOnAllStrings == SimilarityReturned => SimilarityIsSound

\* C12: for all strings a and b that are not both empty, stringSimilarity(a, b)
\* is 1 - editDistance(a, b) / max(len(a), len(b)), a number in [0, 1], equal
\* to stringSimilarity(b, a), and 1 when a = b.
C12_SoundUnlessBothEmpty ==
    (SimilarityReturned /\ ~(sim_str1 = <<>> /\ sim_str2 = <<>>)) => SimilarityIsSound

\* One string is the other with one more character: the similarity is
\* strictly between 0 and 1.
C12_Witness ==
    /\ SimilarityReturned
    /\ sim_str1 = <<"a">>
    /\ sim_str2 = <<"a", "b">>
    /\ sim_result = Num(1, 2)

=============================================================================
